---- MODULE Spec2Model ----
(***************************************************************************)
(* Model of the fence calculation engine                                   *)
(*   src/webshop/webshop/webshop/fence_calculation_engine.py               *)
(* and of the price source it reads at construction                        *)
(*   src/webshop/webshop/webshop/api/fence_calculator.py.                  *)
(*                                                                         *)
(* Units.  The engine computes in binary64.  The model keeps every number  *)
(* as an integer in a unit in which the values the inputs produce are      *)
(* exact, so that the integer arithmetic below is the float arithmetic of  *)
(* the code on these inputs:                                               *)
(*   - coordinates and lengths in quarter feet (pixel coordinates are      *)
(*     integers and scales divide 4, so x / scale is a multiple of 0.25);  *)
(*   - segments are axis-parallel, so sqrt and atan2 are exact;            *)
(*   - unrounded money in thousandths of a dollar, rounded money in cents; *)
(*   - waste factors in percent, concrete_bags_per_post in half bags.      *)
(* The one place where binary64 differs from the reals on these inputs,    *)
(* math.ceil(n * (1 + waste_factor)), is modelled by ceil_float_product.   *)
(***************************************************************************)
EXTENDS Integers, Sequences, FiniteSets, TLC

VARIABLES
    material_specs,   \* FenceCalculationEngine.material_specs
    pricing_data,     \* FenceCalculationEngine.pricing_data
    call,             \* the API call in progress: [op, segments_data, fence_type], or NoCall
    result,           \* the value the call returns to its caller, or NoResult
    frame,            \* the locals of calculate_fence_project when it returned
    logged,           \* the messages the call passed to frappe.log_error
    memo              \* a call some earlier caller made, with what it got back

vars == <<material_specs, pricing_data, call, result, frame, logged, memo>>

----------------------------------------------------------------------------
(* Arithmetic helpers *)

Max(a, b) == IF a >= b THEN a ELSE b

\* math.ceil(a / b) for a >= 0, b > 0
CeilDiv(a, b) == (a + b - 1) \div b

\* the largest r in lo..hi with r * r <= n, by bisection
RECURSIVE ISqrtBetween(_, _, _)
ISqrtBetween(n, lo, hi) ==
    IF lo >= hi THEN lo
    ELSE LET mid == (lo + hi + 1) \div 2
         IN  IF mid * mid <= n THEN ISqrtBetween(n, mid, hi)
             ELSE ISqrtBetween(n, lo, mid - 1)

\* math.sqrt on a perfect square (the inputs are axis-parallel segments)
ISqrt(n) == ISqrtBetween(n, 0, 4096)

RECURSIVE Pow2Le(_, _)
Pow2Le(k, p) == IF 2 * p <= k THEN Pow2Le(k, 2 * p) ELSE p

RECURSIVE SumSeq(_)
SumSeq(s) == IF s = <<>> THEN 0 ELSE Head(s) + SumSeq(Tail(s))

\* (fl(1 + pct/100) - (1 + pct/100)) * 2^52 * 100: the representation error of
\* the binary64 value of 1 + waste_factor, in hundredths of the last mantissa bit
RepresentationError(pct) ==
    LET r == ((100 + pct) * 96) % 100      \* 2^52 mod 100 = 96
    IN  IF r < 50 THEN 0 - r ELSE 100 - r

\* math.ceil(n * (1 + pct/100)) in binary64, n a non-negative integer.
\* n * fl(1 + pct/100) is the real product plus n times the representation
\* error; when the real product is an integer K the float product rounds
\* above K, and ceil gives K + 1, exactly when that excess is more than
\* half the spacing of the floats at K.
ceil_float_product(n, pct) ==
    LET num   == n * (100 + pct)
        exact == CeilDiv(num, 100)
        err   == RepresentationError(pct)
    IN  IF n > 0 /\ num % 100 = 0 /\ err > 0
           /\ 2 * n * err > 100 * Pow2Le(num \div 100, 1)
        THEN exact + 1
        ELSE exact

\* round(v / d, 2) for v / d in cents, d > 0, v >= 0: to the nearest cent
\* (a tie goes to the even cent; none occurs on the inputs of the model)
RoundDiv(v, d) ==
    LET q == v \div d
        r == v % d
    IN  IF 2 * r > d \/ (2 * r = d /\ q % 2 = 1) THEN q + 1 ELSE q

----------------------------------------------------------------------------
(* class FenceType(Enum) *)

FenceType ==
    { "vinyl-privacy", "vinyl-semi-privacy", "vinyl-picket", "aluminum-privacy",
      "aluminum-picket", "wood-privacy", "wood-picket", "chain-link" }

\* FenceType(fence_type): whether the constructor accepts the string
IsFenceType(fence_type) == fence_type \in FenceType

(* class Point: coordinates in quarter feet *)
Point(x, y) == [x |-> x, y |-> y]

\* Point.distance_to squared, in (quarter feet)^2
distance2(p, q) == (p.x - q.x) * (p.x - q.x) + (p.y - q.y) * (p.y - q.y)

\* Point.distance_to, in quarter feet
distance_to(p, q) == ISqrt(distance2(p, q))

\* Point.angle_to in degrees: math.degrees(math.atan2(dy, dx)) of an
\* axis-parallel displacement (atan2(0, 0) = 0)
angle_to(p, q) ==
    LET dx == q.x - p.x
        dy == q.y - p.y
    IN  IF dy = 0 THEN (IF dx < 0 THEN 180 ELSE 0)
        ELSE IF dy > 0 THEN 90 ELSE 0 - 90

(* class FenceSegment: gate_width is <<>> for None and <<w>> for w *)
FenceSegment(id, start, end, fence_type, height, is_gate, gate_width) ==
    [id |-> id, start |-> start, end |-> end, fence_type |-> fence_type,
     height |-> height, is_gate |-> is_gate, gate_width |-> gate_width]

\* FenceSegment.length
length(seg) == distance_to(seg.start, seg.end)

\* FenceSegment.angle
angle(seg) == angle_to(seg.start, seg.end)

(* class MaterialSpecs, with its defaults *)
MaterialSpecs(panel_width, panel_height, hardware_per_panel, concrete_bags_per_post) ==
    [panel_width |-> panel_width,            \* feet
     post_spacing |-> 8,                     \* feet
     post_depth |-> 2,                       \* feet
     panel_height |-> panel_height,          \* feet
     hardware_per_panel |-> hardware_per_panel,
     concrete_bags_per_post |-> concrete_bags_per_post,   \* half bags
     panel_waste_factor |-> 5,               \* percent
     post_waste_factor |-> 2,
     hardware_waste_factor |-> 10]

\* FenceCalculationEngine._load_material_specs
load_material_specs ==
    [t \in FenceType |->
        CASE t = "vinyl-privacy"    -> MaterialSpecs(8, 6, 4, 3)
          [] t = "vinyl-picket"     -> MaterialSpecs(8, 4, 3, 2)
          [] t = "aluminum-privacy" -> MaterialSpecs(6, 6, 6, 4)
          [] t = "wood-privacy"     -> MaterialSpecs(8, 6, 8, 3)
          [] t = "chain-link"       -> MaterialSpecs(10, 4, 2, 3)
          [] OTHER                  -> MaterialSpecs(8, 6, 4, 3)]

----------------------------------------------------------------------------
(* Python values *)

\* dict.get(key, default) on a dict kept as a function over its keys
Get(d, key, default) == IF key \in DOMAIN d THEN d[key] ELSE default

\* the empty dict
EmptyDict == [k \in {} |-> 0]

\* a coordinate of a raw point: a number, or a string (non-numeric)
Num(n) == [num |-> n]
Str(s) == [str |-> s]
IsNumber(c) == "num" \in DOMAIN c

\* an exception, as the handlers report it (str(e))
Raised(type, arg) == [ok |-> FALSE, error |-> [type |-> type, arg |-> arg]]
Returned(value) == [ok |-> TRUE, value |-> value]

NoCall == [op |-> "none"]
NoResult == [returned |-> FALSE]
NoFrame == [entered |-> FALSE]
NoMemo == [kept |-> FALSE]

----------------------------------------------------------------------------
(* The price source: api/fence_calculator.get_pricing_from_database *)

\* the table get_pricing_from_database falls back to
DatabaseFallbackPricing ==
    [t \in FenceType |->
        CASE t = "vinyl-privacy"      -> [base |-> 25, perFoot |-> 18]
          [] t = "vinyl-semi-privacy" -> [base |-> 22, perFoot |-> 16]
          [] t = "vinyl-picket"       -> [base |-> 20, perFoot |-> 14]
          [] t = "aluminum-privacy"   -> [base |-> 35, perFoot |-> 25]
          [] t = "aluminum-picket"    -> [base |-> 30, perFoot |-> 22]
          [] t = "wood-privacy"       -> [base |-> 18, perFoot |-> 12]
          [] t = "wood-picket"        -> [base |-> 15, perFoot |-> 10]
          [] OTHER                    -> [base |-> 12, perFoot |-> 8]]

\* the fence type an Item Price row is filed under, from the words of its
\* item_code, or "" when the code names no material
ItemKey(words) ==
    IF "vinyl" \in words THEN
        (IF "privacy" \in words THEN "vinyl-privacy"
         ELSE IF "picket" \in words THEN "vinyl-picket"
         ELSE "vinyl-semi-privacy")
    ELSE IF "aluminum" \in words THEN
        (IF "privacy" \in words THEN "aluminum-privacy" ELSE "aluminum-picket")
    ELSE IF "wood" \in words THEN
        (IF "privacy" \in words THEN "wood-privacy" ELSE "wood-picket")
    ELSE IF "chain" \in words THEN "chain-link"
    ELSE ""

\* the loop over pricing_items: a later row of the same key overwrites
RECURSIVE PricingOfItems(_, _)
PricingOfItems(items, pricing) ==
    IF items = <<>> THEN pricing
    ELSE LET item == Head(items)
             key  == ItemKey(item.item_code)
             rate == IF item.price_list_rate # 0 THEN item.price_list_rate
                     ELSE DatabaseFallbackPricing[key].perFoot
             entry == [base |-> DatabaseFallbackPricing[key].base, perFoot |-> rate]
         IN  PricingOfItems(Tail(items),
                IF key = "" THEN pricing
                ELSE [k \in DOMAIN pricing \cup {key} |->
                        IF k = key THEN entry ELSE pricing[k]])

\* get_pricing_from_database: source.query is "error" when frappe.get_all
\* raises and "rows" when it returns source.pricing_items
get_pricing_from_database(source) ==
    IF source.query = "rows" /\ source.pricing_items # <<>>
    THEN PricingOfItems(source.pricing_items, EmptyDict)
    ELSE DatabaseFallbackPricing

\* the built-in table of _load_pricing_data
DefaultPricing ==
    [t \in FenceType |->
        CASE t = "vinyl-privacy"      -> [base |-> 25, per_foot |-> 18, labor_per_foot |-> 8]
          [] t = "vinyl-semi-privacy" -> [base |-> 22, per_foot |-> 16, labor_per_foot |-> 7]
          [] t = "vinyl-picket"       -> [base |-> 20, per_foot |-> 14, labor_per_foot |-> 6]
          [] t = "aluminum-privacy"   -> [base |-> 35, per_foot |-> 25, labor_per_foot |-> 10]
          [] t = "aluminum-picket"    -> [base |-> 30, per_foot |-> 22, labor_per_foot |-> 9]
          [] t = "wood-privacy"       -> [base |-> 18, per_foot |-> 12, labor_per_foot |-> 6]
          [] t = "wood-picket"        -> [base |-> 15, per_foot |-> 10, labor_per_foot |-> 5]
          [] OTHER                    -> [base |-> 12, per_foot |-> 8, labor_per_foot |-> 4]]

\* _load_pricing_data returning whatever the lookup returned, an empty table
\* included
load_pricing_data_unguarded(source) ==
    IF source.call = "raises" THEN DefaultPricing
    ELSE get_pricing_from_database(source)

\* FenceCalculationEngine._load_pricing_data: source.call is "raises" when
\* frappe.call raises (no site is bound when the module is imported)
load_pricing_data(source) ==
    IF source.call = "raises" THEN DefaultPricing
    ELSE LET pricing == get_pricing_from_database(source)
         IN  IF DOMAIN pricing # {} THEN pricing ELSE DefaultPricing

----------------------------------------------------------------------------
(* FenceCalculationEngine._parse_segments *)

\* "segment_length < 10": 10 feet in quarter feet
GateThreshold == 40

\* the gate test with the boundary on the gate side: segment_length <= 10
IsGateInclusive(segment_length) == segment_length <= GateThreshold

\* is_gate = segment_length < 10
IsGate(segment_length) == segment_length < GateThreshold

\* the drawing's own scale never read: every path taken at 1 pixel a foot
ScaleIgnored(segment) == 1

\* scale = segment.get('scale', 1): pixels per foot
ScaleOf(segment) == Get(segment, "scale", 1)

\* one step (i, j) of the inner loop: the FenceSegment it appends, or the
\* exception it raises; i and j count from 0 as in the code
ParseStep(segment, i, j, fence_type) ==
    LET path  == Get(segment, "path", <<>>)
        p0    == path[j + 1]
        p1    == path[j + 2]
        scale == ScaleOf(segment)
        start_point == Point((4 * p0.x.num) \div scale, (4 * p0.y.num) \div scale)
        end_point   == Point((4 * p1.x.num) \div scale, (4 * p1.y.num) \div scale)
        segment_length == distance_to(start_point, end_point)
        is_gate == IsGate(segment_length)
    IN  IF "x" \notin DOMAIN p0 THEN Raised("KeyError", "x")
        ELSE IF "y" \notin DOMAIN p0 THEN Raised("KeyError", "y")
        ELSE IF "x" \notin DOMAIN p1 THEN Raised("KeyError", "x")
        ELSE IF "y" \notin DOMAIN p1 THEN Raised("KeyError", "y")
        ELSE IF ~IsNumber(p0.x) THEN Raised("TypeError", "/=")
        ELSE IF scale = 0 THEN Raised("ZeroDivisionError", "float division by zero")
        ELSE IF ~IsNumber(p0.y) \/ ~IsNumber(p1.x) \/ ~IsNumber(p1.y)
             THEN Raised("TypeError", "/=")
        ELSE IF ~IsFenceType(fence_type) THEN Raised("ValueError", fence_type)
        ELSE Returned(FenceSegment(<<i, j>>, start_point, end_point, fence_type,
                                   Get(segment, "height", 6), is_gate,
                                   IF is_gate THEN <<segment_length>> ELSE <<>>))

\* the inner loop, for j in range(len(path) - 1), from step j on
RECURSIVE ParsePath(_, _, _, _, _)
ParsePath(segment, i, j, fence_type, fence_segments) ==
    IF j >= Len(Get(segment, "path", <<>>)) - 1 THEN Returned(fence_segments)
    ELSE LET step == ParseStep(segment, i, j, fence_type)
         IN  IF ~step.ok THEN step
             ELSE ParsePath(segment, i, j + 1, fence_type,
                            Append(fence_segments, step.value))

\* the outer loop, for i, segment in enumerate(segments), from entry i on
RECURSIVE ParseFrom(_, _, _, _)
ParseFrom(segments, i, fence_type, fence_segments) ==
    IF i >= Len(segments) THEN Returned(fence_segments)
    ELSE LET segment == segments[i + 1]
             path    == Get(segment, "path", <<>>)
         IN  IF Len(path) < 2
             THEN ParseFrom(segments, i + 1, fence_type, fence_segments)
             ELSE LET parsed == ParsePath(segment, i, 0, fence_type, fence_segments)
                  IN  IF ~parsed.ok THEN parsed
                      ELSE ParseFrom(segments, i + 1, fence_type, parsed.value)

parse_segments(segments, fence_type) == ParseFrom(segments, 0, fence_type, <<>>)

----------------------------------------------------------------------------
(* Connectivity: analyze_connectivity, _segments_connected, _dfs_connectivity *)

\* "tolerance: float = 0.5" feet, in quarter feet
Tolerance == 2

\* p.distance_to(q) <= tolerance, decided on the squares
Within(p, q, tolerance) == distance2(p, q) <= tolerance * tolerance

\* the endpoints compared with the tolerance itself left out: distance < 0.5
segments_connected_strictly(seg1, seg2) ==
    \E p1 \in {seg1.start, seg1.end} : \E p2 \in {seg2.start, seg2.end} :
        distance2(p1, p2) < Tolerance * Tolerance

segments_connected(seg1, seg2) ==
    \E p1 \in {seg1.start, seg1.end} : \E p2 \in {seg2.start, seg2.end} :
        Within(p1, p2, Tolerance)

\* connections[i]: the j # i connected to i, in increasing order (from 1)
Connections(segments) ==
    [i \in 1..Len(segments) |->
        SelectSeq([j \in 1..Len(segments) |-> j],
                  LAMBDA j : i # j /\ segments_connected(segments[i], segments[j]))]

\* the traversal state is [visited, group]: the set and the list the
\* recursive calls share
RECURSIVE dfs_connectivity(_, _, _)
RECURSIVE DfsNeighbors(_, _, _, _)
dfs_connectivity(node, connections, st) ==
    DfsNeighbors(node, 1, connections,
                 [visited |-> st.visited \cup {node}, group |-> Append(st.group, node)])
DfsNeighbors(node, k, connections, st) ==
    IF k > Len(connections[node]) THEN st
    ELSE LET neighbor == connections[node][k]
         IN  DfsNeighbors(node, k + 1, connections,
                IF neighbor \notin st.visited
                THEN dfs_connectivity(neighbor, connections, st)
                ELSE st)

\* the loop of analyze_connectivity with a visited set that the traversal
\* does not fill: only the segment a group starts from is marked
RECURSIVE GroupsFromUnmarked(_, _, _, _, _)
GroupsFromUnmarked(i, n, connections, visited, groups) ==
    IF i > n THEN groups
    ELSE IF i \in visited
         THEN GroupsFromUnmarked(i + 1, n, connections, visited, groups)
    ELSE LET st == dfs_connectivity(i, connections, [visited |-> visited, group |-> <<>>])
         IN  GroupsFromUnmarked(i + 1, n, connections, visited \cup {i},
                                Append(groups, st.group))

\* the loop "for i in range(len(segments))" from i on: the index groups
RECURSIVE GroupsFrom(_, _, _, _, _)
GroupsFrom(i, n, connections, visited, groups) ==
    IF i > n THEN groups
    ELSE IF i \in visited THEN GroupsFrom(i + 1, n, connections, visited, groups)
    ELSE LET st == dfs_connectivity(i, connections, [visited |-> visited, group |-> <<>>])
         IN  GroupsFrom(i + 1, n, connections, st.visited, Append(groups, st.group))

\* the groups as lists of indices into segments (from 1)
IndexGroups(segments) ==
    IF segments = <<>> THEN <<>>
    ELSE GroupsFrom(1, Len(segments), Connections(segments), {}, <<>>)

analyze_connectivity(segments) ==
    LET groups == IndexGroups(segments)
    IN  [g \in 1..Len(groups) |->
            [k \in 1..Len(groups[g]) |-> segments[groups[g][k]]]]

----------------------------------------------------------------------------
(* Posts: _calculate_posts_for_group, _find_point_index *)

\* the index (from 1) of the first point of the list within tolerance, 0 for None
find_point_index(point, points) ==
    IF \E k \in 1..Len(points) : Within(points[k], point, Tolerance)
    THEN CHOOSE k \in 1..Len(points) :
            /\ Within(points[k], point, Tolerance)
            /\ \A m \in 1..(k - 1) : ~Within(points[m], point, Tolerance)
    ELSE 0

\* the first loop: each endpoint joins the first listed point within
\* tolerance, or is appended
RECURSIVE CollectPoints(_, _)
CollectPoints(endpoints, points) ==
    IF endpoints = <<>> THEN points
    ELSE CollectPoints(Tail(endpoints),
            IF find_point_index(Head(endpoints), points) = 0
            THEN Append(points, Head(endpoints))
            ELSE points)

\* the endpoints of the segments that have a length only
RECURSIVE EndpointsOfFence(_)
EndpointsOfFence(group) ==
    IF group = <<>> THEN <<>>
    ELSE (IF Head(group).start = Head(group).end THEN <<>>
          ELSE <<Head(group).start, Head(group).end>>)
         \o EndpointsOfFence(Tail(group))

\* [seg.start, seg.end] for seg in group, in order
RECURSIVE Endpoints(_)
Endpoints(group) ==
    IF group = <<>> THEN <<>>
    ELSE <<Head(group).start, Head(group).end>> \o Endpoints(Tail(group))

GroupPoints(group) == CollectPoints(Endpoints(group), <<>>)

\* set(point_connections[idx]) after the second loop
PointConnections(group, points) ==
    [idx \in 1..Len(points) |->
        { find_point_index(group[k].end, points) :
            k \in {m \in 1..Len(group) : find_point_index(group[m].start, points) = idx} }
        \cup
        { find_point_index(group[k].start, points) :
            k \in {m \in 1..Len(group) : find_point_index(group[m].end, points) = idx} }]

\* sum(seg.length for seg in group if not seg.is_gate)
RECURSIVE NonGateLength(_)
NonGateLength(group) ==
    IF group = <<>> THEN 0
    ELSE (IF Head(group).is_gate THEN 0 ELSE length(Head(group)))
         + NonGateLength(Tail(group))

\* the counts "for point_idx, connections in point_connections.items()"
EndPosts(point_connections) ==
    Cardinality({idx \in DOMAIN point_connections :
                    Cardinality(point_connections[idx]) = 1})

\* the corner test taking in the points with two connections: >= 2
CornerPostsFromTwo(point_connections) ==
    Cardinality({idx \in DOMAIN point_connections :
                    Cardinality(point_connections[idx]) >= 2})

CornerPosts(point_connections) ==
    Cardinality({idx \in DOMAIN point_connections :
                    Cardinality(point_connections[idx]) > 2})

\* _calculate_posts_for_group without its line posts
LinePostsNone(corner_posts, end_posts, total_length, specs) == 0

\* the line posts without the floor of 0: theoretical_posts - corner_posts -
\* end_posts
LinePostsUnclamped(corner_posts, end_posts, total_length, specs) ==
    CeilDiv(total_length, 4 * specs.post_spacing) - corner_posts - end_posts

\* line_posts = max(0, theoretical_posts - corner_posts - end_posts)
LinePosts(corner_posts, end_posts, total_length, specs) ==
    Max(0, CeilDiv(total_length, 4 * specs.post_spacing) - corner_posts - end_posts)

\* the locals of _calculate_posts_for_group at its return
PostsRecord(points, point_connections, corner_posts, end_posts, line_posts) ==
    [points |-> points, point_connections |-> point_connections,
     end_posts |-> end_posts, corner_posts |-> corner_posts,
     line_posts |-> line_posts]

PostsOfConnections(points, point_connections, total_length, specs) ==
    PostsRecord(points, point_connections,
                CornerPosts(point_connections), EndPosts(point_connections),
                LinePosts(CornerPosts(point_connections), EndPosts(point_connections),
                          total_length, specs))

PostsOfPoints(group, points, specs) ==
    PostsOfConnections(points, PointConnections(group, points),
                       NonGateLength(group), specs)

PostsLocals(group, specs) == PostsOfPoints(group, GroupPoints(group), specs)

PostsSum(l) == l.corner_posts + l.end_posts + l.line_posts

calculate_posts_for_group(group, specs) ==
    IF group = <<>> THEN 0 ELSE PostsSum(PostsLocals(group, specs))

----------------------------------------------------------------------------
(* Materials: calculate_materials_for_group, optimize_cuts *)

RECURSIVE TotalLength(_)
TotalLength(group) ==
    IF group = <<>> THEN 0 ELSE length(Head(group)) + TotalLength(Tail(group))

\* sum(seg.gate_width or 0 for seg in group if seg.is_gate)
RECURSIVE GateWidths(_)
GateWidths(group) ==
    IF group = <<>> THEN 0
    ELSE (IF Head(group).is_gate /\ Head(group).gate_width # <<>>
          THEN Head(group).gate_width[1] ELSE 0)
         + GateWidths(Tail(group))

\* the locals of calculate_materials_for_group before the waste factors
RawQuantities(specs, total_length, gate_count, fence_length, panels_needed, posts_needed) ==
    [total_length |-> total_length,
     gate_count |-> gate_count,
     fence_length |-> fence_length,
     panels_needed |-> panels_needed,
     posts_needed |-> posts_needed,
     hardware_needed |-> panels_needed * specs.hardware_per_panel,
     gates_needed |-> gate_count,
     concrete_needed |-> posts_needed * specs.concrete_bags_per_post]

PanelsNeeded(fence_length, specs) == CeilDiv(fence_length, 4 * specs.panel_width)

\* the gates counted by their width: a gate of width 0 is none
GateCountByWidth(group) ==
    Len(SelectSeq(group, LAMBDA seg : seg.is_gate /\ seg.gate_width # <<0>>))

GateCount(group) == Len(SelectSeq(group, LAMBDA seg : seg.is_gate))

\* the gates left in the length the panels cover
FenceLengthWithGates(group) == TotalLength(group)

FenceLength(group) == TotalLength(group) - GateWidths(group)

MaterialsLocals(self, group, fence_type) ==
    RawQuantities(self.material_specs[fence_type], TotalLength(group),
                  GateCount(group), FenceLength(group),
                  PanelsNeeded(FenceLength(group), self.material_specs[fence_type]),
                  calculate_posts_for_group(group, self.material_specs[fence_type]))

\* the returned dict with 'total_length': fence_length, the gates left out
WithWasteFenceLength(specs, l) ==
    [panels |-> ceil_float_product(l.panels_needed, specs.panel_waste_factor),
     posts |-> ceil_float_product(l.posts_needed, specs.post_waste_factor),
     hardware |-> ceil_float_product(l.hardware_needed, specs.hardware_waste_factor),
     gates |-> l.gates_needed,
     concrete_bags |-> CeilDiv(l.concrete_needed, 2),
     total_length |-> l.fence_length]

\* the concrete taken for the posts with their waste factor
ConcreteBagsAfterWaste(specs, l) ==
    CeilDiv(ceil_float_product(l.posts_needed, specs.post_waste_factor)
            * specs.concrete_bags_per_post, 2)

\* math.ceil(concrete_needed), concrete_needed in half bags
ConcreteBags(specs, l) == CeilDiv(l.concrete_needed, 2)

\* "Apply waste factors", and the returned dict
WithWaste(specs, l) ==
    [panels |-> ceil_float_product(l.panels_needed, specs.panel_waste_factor),
     posts |-> ceil_float_product(l.posts_needed, specs.post_waste_factor),
     hardware |-> ceil_float_product(l.hardware_needed, specs.hardware_waste_factor),
     gates |-> l.gates_needed,
     concrete_bags |-> ConcreteBags(specs, l),
     total_length |-> l.total_length]

calculate_materials_for_group(self, group, fence_type) ==
    IF ~IsFenceType(fence_type) THEN Raised("ValueError", fence_type)
    ELSE Returned(WithWaste(self.material_specs[fence_type],
                            MaterialsLocals(self, group, fence_type)))

\* the panel optimization written into a dict: cut_waste_factor 0.03, in
\* percent
Annotated(materials) ==
    IF "panels" \in DOMAIN materials
    THEN [k \in DOMAIN materials \cup {"cut_waste_factor"} |->
             IF k = "cut_waste_factor" THEN 3 ELSE materials[k]]
    ELSE materials

\* optimized = materials, without the copy: the caller's dict is the one
\* written into
CutsInPlace(materials) ==
    [optimized |-> Annotated(materials), materials |-> Annotated(materials)]

\* optimized = materials.copy() and the writes into it: the dict returned
\* and the caller's dict afterwards
Cuts(materials) ==
    [optimized |-> Annotated(materials), materials |-> materials]

\* optimize_cuts without its FenceType(fence_type) conversion
optimize_cuts_unchecked(self, materials, fence_type) ==
    [ok |-> TRUE, value |-> Cuts(materials).optimized,
     materials |-> Cuts(materials).materials]

\* value is the dict returned, materials the argument after the call
optimize_cuts(self, materials, fence_type) ==
    IF ~IsFenceType(fence_type) THEN Raised("ValueError", fence_type)
    ELSE [ok |-> TRUE, value |-> Cuts(materials).optimized,
          materials |-> Cuts(materials).materials]

----------------------------------------------------------------------------
(* Pricing: calculate_pricing.  Rates in dollars, total_length in quarter   *)
(* feet, the locals in thousandths of a dollar, the returned values in     *)
(* cents.                                                                  *)

Markup(subtotal) == (subtotal * 20) \div 100

\* the tax taken on the subtotal alone
TaxOnSubtotal(subtotal, markup) == (subtotal * 8) \div 100

Tax(subtotal, markup) == ((subtotal + markup) * 8) \div 100

Totals(l, subtotal) ==
    [total_length |-> l.total_length, material_cost |-> l.material_cost,
     labor_cost |-> l.labor_cost, gate_cost |-> l.gate_cost,
     concrete_cost |-> l.concrete_cost, hardware_cost |-> l.hardware_cost,
     subtotal |-> subtotal, markup |-> Markup(subtotal),
     tax |-> Tax(subtotal, Markup(subtotal)),
     total_cost |-> subtotal + Markup(subtotal) + Tax(subtotal, Markup(subtotal))]

Costs(pricing, materials, total_length) ==
    [total_length |-> total_length,
     material_cost |-> 1000 * Get(pricing, "base", 0)
                       + 250 * total_length * Get(pricing, "per_foot", 0),
     labor_cost |-> 250 * total_length * Get(pricing, "labor_per_foot", 0),
     gate_cost |-> 1000 * Get(materials, "gates", 0) * 150,
     concrete_cost |-> 1000 * Get(materials, "concrete_bags", 0) * 8,
     hardware_cost |-> 1000 * Get(materials, "hardware", 0) * 2]

Subtotal(l) ==
    l.material_cost + l.labor_cost + l.gate_cost + l.concrete_cost + l.hardware_cost

CostsTotals(l) == Totals(l, Subtotal(l))

\* the locals of calculate_pricing before rounding
PricingLocals(self, materials, fence_type) ==
    CostsTotals(Costs(Get(self.pricing_data, fence_type, EmptyDict), materials,
                      Get(materials, "total_length", 0)))

\* the returned dict: round(value, 2) of each local
Rounded(l) ==
    [material_cost |-> RoundDiv(l.material_cost, 10),
     labor_cost |-> RoundDiv(l.labor_cost, 10),
     gate_cost |-> RoundDiv(l.gate_cost, 10),
     concrete_cost |-> RoundDiv(l.concrete_cost, 10),
     hardware_cost |-> RoundDiv(l.hardware_cost, 10),
     subtotal |-> RoundDiv(l.subtotal, 10),
     markup |-> RoundDiv(l.markup, 10),
     tax |-> RoundDiv(l.tax, 10),
     total_cost |-> RoundDiv(l.total_cost, 10),
     cost_per_foot |-> IF l.total_length > 0
                       THEN RoundDiv(4 * l.total_cost, 10 * l.total_length)
                       ELSE 0]

calculate_pricing(self, materials, fence_type) ==
    Rounded(PricingLocals(self, materials, fence_type))

----------------------------------------------------------------------------
(* calculate_fence_project *)

\* _segment_to_dict: length in hundredths of a foot (round(length, 2))
segment_to_dict(segment) ==
    [id |-> segment.id,
     start |-> [x |-> segment.start.x, y |-> segment.start.y],
     end |-> [x |-> segment.end.x, y |-> segment.end.y],
     length |-> 25 * length(segment),
     angle |-> angle(segment),
     fence_type |-> segment.fence_type,
     height |-> segment.height,
     is_gate |-> segment.is_gate,
     gate_width |-> segment.gate_width]

\* the merge as total_materials.update(group_materials): the last group's
\* quantity replaces the total
MergeMaterialsByUpdate(total_materials, group_materials) ==
    [k \in DOMAIN total_materials \cup DOMAIN group_materials |->
        Get(group_materials, k, Get(total_materials, k, 0))]

\* total_materials[material] = total_materials.get(material, 0) + quantity
MergeMaterials(total_materials, group_materials) ==
    [k \in DOMAIN total_materials \cup DOMAIN group_materials |->
        Get(total_materials, k, 0) + Get(group_materials, k, 0)]

\* one pass of the loop body over the accumulated locals
Accumulate(acc, group_materials, group_cost) ==
    [total_materials |-> MergeMaterials(acc.total_materials, group_materials),
     total_cost |-> acc.total_cost + group_cost.total_cost,
     group_materials |-> Append(acc.group_materials, group_materials),
     group_cost |-> Append(acc.group_cost, group_cost)]

\* the loop "for group in connected_groups" from group g on; acc holds the
\* locals total_materials and total_cost and the per-group values
RECURSIVE GroupLoop(_, _, _, _, _)
GroupStep(self, connected_groups, g, fence_type, acc, group_materials) ==
    IF ~group_materials.ok THEN group_materials
    ELSE GroupLoop(self, connected_groups, g + 1, fence_type,
            Accumulate(acc, group_materials.value,
                       calculate_pricing(self, group_materials.value, fence_type)))
GroupLoop(self, connected_groups, g, fence_type, acc) ==
    IF g > Len(connected_groups) THEN Returned(acc)
    ELSE GroupStep(self, connected_groups, g, fence_type, acc,
            calculate_materials_for_group(self, connected_groups[g], fence_type))

\* the except branch: log, and return the error result
Failed(raised) ==
    [ret |-> [success |-> FALSE, error |-> raised.error],
     logged |-> <<[message |-> "Error in fence calculation", error |-> raised.error]>>,
     frame |-> [entered |-> TRUE, completed |-> FALSE]]

\* the breakdown with the total the loop accumulated over the groups
CostBreakdownAccumulated(self, fence_type, loop, optimized_materials) ==
    [calculate_pricing(self, optimized_materials.value, fence_type)
        EXCEPT !.total_cost = loop.total_cost]

\* 'cost_breakdown': self.calculate_pricing(optimized_materials, fence_type)
CostBreakdown(self, fence_type, loop, optimized_materials) ==
    calculate_pricing(self, optimized_materials.value, fence_type)

\* "Generate final report"
Report(self, fence_type, fence_segments, connected_groups, loop, optimized_materials) ==
    IF ~optimized_materials.ok THEN Failed(optimized_materials)
    ELSE
    [ret |->
        [success |-> TRUE,
         total_length |-> TotalLength(fence_segments),
         segment_count |-> Len(fence_segments),
         connected_groups |-> Len(connected_groups),
         materials |-> optimized_materials.value,
         cost_breakdown |->
            CostBreakdown(self, fence_type, loop, optimized_materials),
         segments |-> [k \in 1..Len(fence_segments) |->
                          segment_to_dict(fence_segments[k])]],
     logged |-> <<>>,
     frame |->
        [entered |-> TRUE, completed |-> TRUE,
         fence_segments |-> fence_segments,
         connected_groups |-> connected_groups,
         group_locals |-> [g \in 1..Len(connected_groups) |->
                              MaterialsLocals(self, connected_groups[g], fence_type)],
         group_materials |-> loop.group_materials,
         group_cost |-> loop.group_cost,
         total_materials |-> optimized_materials.materials,
         total_cost |-> loop.total_cost]]

\* "Apply cut optimization"
AfterLoop(self, fence_type, fence_segments, connected_groups, loop) ==
    IF ~loop.ok THEN Failed(loop)
    ELSE Report(self, fence_type, fence_segments, connected_groups, loop.value,
                optimize_cuts(self, loop.value.total_materials, fence_type))

\* "Calculate materials for each group"
AfterConnectivity(self, fence_type, fence_segments, connected_groups) ==
    AfterLoop(self, fence_type, fence_segments, connected_groups,
              GroupLoop(self, connected_groups, 1, fence_type,
                        [total_materials |-> EmptyDict, total_cost |-> 0,
                         group_materials |-> <<>>, group_cost |-> <<>>]))

\* "Perform connectivity analysis"
AfterParse(self, fence_type, fence_segments) ==
    IF ~fence_segments.ok THEN Failed(fence_segments)
    ELSE AfterConnectivity(self, fence_type, fence_segments.value,
                           analyze_connectivity(fence_segments.value))

\* [ret, logged, frame]: the returned dict, the frappe.log_error calls and
\* the locals at the return
calculate_fence_project(self, segments, fence_type) ==
    AfterParse(self, fence_type, parse_segments(segments, fence_type))

----------------------------------------------------------------------------
(* The engine and its API endpoints *)

\* the global instance, as the endpoints see it
fence_calculator == [material_specs |-> material_specs, pricing_data |-> pricing_data]

Idle == call = NoCall

\* a request has arrived and its handler has not run
Pending == call # NoCall /\ result = NoResult

\* the handler has run
Served == call # NoCall /\ result # NoResult

\* a request arrives
Requested(request) ==
    /\ call' = request
    /\ UNCHANGED <<material_specs, pricing_data, result, frame, logged, memo>>

\* the requests for the two calculating endpoints
Calls(op, drawings, fence_types) ==
    {[op |-> op, segments_data |-> segments_data, fence_type |-> fence_type] :
        segments_data \in drawings, fence_type \in fence_types}

\* a call returns: its result, locals and log records are the caller's
Return ==
    /\ Served
    /\ call' = NoCall
    /\ result' = NoResult
    /\ frame' = NoFrame
    /\ logged' = <<>>
    /\ UNCHANGED <<material_specs, pricing_data, memo>>

\* the same, the caller keeping the call and what it got
ReturnKept ==
    /\ Served
    /\ memo' = [kept |-> TRUE, call |-> call, result |-> result, frame |-> frame,
                engine |-> fence_calculator]
    /\ call' = NoCall
    /\ result' = NoResult
    /\ frame' = NoFrame
    /\ logged' = <<>>
    /\ UNCHANGED <<material_specs, pricing_data>>

\* what a call leaves for its caller
Outcome(out) ==
    /\ result' = out.ret
    /\ frame' = out.frame
    /\ logged' = out.logged

\* @frappe.whitelist calculate_fence_materials(segments_data, fence_type)
calculate_fence_materials(segments_data, fence_type) ==
    /\ Outcome(calculate_fence_project(fence_calculator, segments_data, fence_type))
    /\ UNCHANGED <<call, material_specs, pricing_data, memo>>

\* get_fence_specifications halving the panel width of the shared
\* MaterialSpecs object it reads
get_fence_specifications_in_place(fence_type) ==
    /\ result' = IF fence_type \in DOMAIN material_specs
                 THEN [success |-> TRUE,
                       specifications |-> [panel_width |-> 4]]
                 ELSE [success |-> FALSE,
                       error |-> Raised("ValueError", fence_type).error]
    /\ logged' = <<>>
    /\ frame' = NoFrame
    /\ material_specs' =
          IF fence_type \in DOMAIN material_specs
          THEN [material_specs EXCEPT ![fence_type].panel_width = 4]
          ELSE material_specs
    /\ UNCHANGED <<call, pricing_data, memo>>

\* @frappe.whitelist get_fence_specifications(fence_type)
get_fence_specifications(fence_type) ==
    /\ IF ~IsFenceType(fence_type)
       THEN /\ result' = [success |-> FALSE,
                          error |-> Raised("ValueError", fence_type).error]
            /\ logged' = <<[message |-> "Error getting fence specifications",
                            error |-> Raised("ValueError", fence_type).error]>>
       ELSE /\ logged' = <<>>
            /\ result' =
                 IF fence_type \in DOMAIN material_specs
                 THEN LET specs == material_specs[fence_type]
                      IN  [success |-> TRUE,
                           specifications |->
                             [panel_width |-> specs.panel_width,
                              post_spacing |-> specs.post_spacing,
                              panel_height |-> specs.panel_height,
                              hardware_per_panel |-> specs.hardware_per_panel,
                              concrete_bags_per_post |-> specs.concrete_bags_per_post]]
                 ELSE [success |-> FALSE,
                       error |-> [type |-> "", arg |-> "Fence type not found"]]
    /\ frame' = NoFrame
    /\ UNCHANGED <<call, material_specs, pricing_data, memo>>

\* the panel test with the boundary on the suggesting side: total_length >= 50
AtPanelThreshold(total_length) == total_length >= 4 * 50

\* "if total_length > 50", in quarter feet
OverPanelThreshold(total_length) == total_length > 4 * 50

\* the suggestions of optimize_fence_layout: potential_savings in cents
Suggestions(current_result) ==
    IF ~current_result.success THEN <<>>
    ELSE
    LET total_length == current_result.total_length
        gate_count == Get(current_result.materials, "gates", 0)
    IN  (IF OverPanelThreshold(total_length)
         THEN <<[type |-> "panel_optimization",
                 potential_savings |-> RoundDiv(100 * total_length, 8)]>>
         ELSE <<>>)
        \o
        (IF gate_count > 2
         THEN <<[type |-> "gate_optimization",
                 potential_savings |-> 100 * (gate_count - 2) * 150]>>
         ELSE <<>>)
        \o
        (IF current_result.connected_groups > 1
         THEN <<[type |-> "connectivity",
                 potential_savings |-> 100 * current_result.connected_groups * 100]>>
         ELSE <<>>)

\* the dict optimize_fence_layout returns around current_result
Advice(out) ==
    [ret |-> [success |-> TRUE,
              current_result |-> out.ret,
              suggestions |-> Suggestions(out.ret)],
     frame |-> out.frame,
     logged |-> out.logged]

\* @frappe.whitelist optimize_fence_layout(segments_data, fence_type)
optimize_fence_layout(segments_data, fence_type) ==
    /\ Outcome(Advice(calculate_fence_project(fence_calculator, segments_data,
                                               fence_type)))
    /\ UNCHANGED <<call, material_specs, pricing_data, memo>>

\* the worker runs the handler of the pending request
Calculate ==
    /\ Pending
    /\ call.op = "calculate_fence_materials"
    /\ calculate_fence_materials(call.segments_data, call.fence_type)

Specifications ==
    /\ Pending
    /\ call.op = "get_fence_specifications"
    /\ get_fence_specifications(call.fence_type)

Optimize ==
    /\ Pending
    /\ call.op = "optimize_fence_layout"
    /\ optimize_fence_layout(call.segments_data, call.fence_type)

----------------------------------------------------------------------------
(* Construction: fence_calculator = FenceCalculationEngine() *)

\* what the price source does when the module is imported
PriceSources ==
    { [call |-> "raises"],
      [call |-> "returns", query |-> "error"],
      [call |-> "returns", query |-> "rows",
       pricing_items |-> <<[item_code |-> {"fence", "post"}, price_list_rate |-> 9]>>],
      [call |-> "returns", query |-> "rows",
       pricing_items |-> <<[item_code |-> {"vinyl", "privacy", "fence"},
                            price_list_rate |-> 20]>>] }

Constructed(source) ==
    /\ material_specs = load_material_specs
    /\ pricing_data = load_pricing_data(source)
    /\ call = NoCall
    /\ result = NoResult
    /\ frame = NoFrame
    /\ logged = <<>>
    /\ memo = NoMemo

Init == \E source \in PriceSources : Constructed(source)

----------------------------------------------------------------------------
(* The calls of the model: raw drawings over a small alphabet of points *)

\* pixel coordinates of drawn points (y = 0)
Pt(a) == [x |-> Num(a), y |-> Num(0)]

\* a point without "x", and a point whose "y" is a string
MalformedPoints == {[y |-> Num(0)], [x |-> Num(0), y |-> Str("north")]}

PathsOver(points, len) == [1..len -> points]

\* the raw drawing objects of a family with a path of len points; a family
\* is [points, scales, shortest, longest]: the points drawn, the "scale"
\* values (0 for an object without the key) and the lengths of the shortest
\* and the longest path
RawSegments(family, len) ==
    IF len < family.shortest \/ len > family.longest THEN {}
    ELSE {[path |-> p] : p \in IF 0 \in family.scales
                                THEN PathsOver(family.points, len) ELSE {}}
         \cup UNION { {[path |-> p, scale |-> sc] : p \in PathsOver(family.points, len)} :
                      sc \in family.scales \ {0} }

\* a drawing's size: its points, an entry with no point counting as one
Cost(len) == IF len = 0 THEN 1 ELSE len

RECURSIVE Drawings(_, _)
Drawings(family, size) ==
    {<<>>} \cup
    UNION { { <<segment>> \o rest :
                segment \in RawSegments(family, len),
                rest \in Drawings(family, size - Cost(len)) } :
            len \in {l \in 0..size : Cost(l) <= size} }

\* the points of the largest drawing sent
MaxSize == 4

\* drawings of every kind of entry, well-formed or not, over two points
SegmentsData(size) ==
    Drawings([points |-> {Pt(0), Pt(24)} \cup MalformedPoints,
              scales |-> {0}, shortest |-> 0, longest |-> size], size)

\* the fence_type strings the callers send: a member of FenceType and a
\* string that is no member
FenceTypeStrings == {"vinyl-privacy", "titanium-privacy"}

SpecificationsCalls ==
    {[op |-> "get_fence_specifications", fence_type |-> fence_type] :
        fence_type \in FenceType \cup FenceTypeStrings}

\* the worker is synchronous: a request arrives when none is being served
Request ==
    /\ Idle
    /\ \E request \in Calls("calculate_fence_materials", SegmentsData(MaxSize),
                             FenceTypeStrings)
                       \cup Calls("optimize_fence_layout", SegmentsData(MaxSize),
                                  FenceTypeStrings)
                       \cup SpecificationsCalls :
          Requested(request)

Next == Request \/ Calculate \/ Specifications \/ Optimize \/ Return

Spec == Init /\ [][Next]_vars

----------------------------------------------------------------------------
(* Callers that keep what they got: the calls of Spec over the drawings of  *)
(* at most MaxKeptSize points, a caller now and then keeping its call and   *)
(* the result                                                               *)

MaxKeptSize == 2

RequestKept ==
    /\ Idle
    /\ \E request \in Calls("calculate_fence_materials", SegmentsData(MaxKeptSize),
                             FenceTypeStrings)
                       \cup Calls("optimize_fence_layout", SegmentsData(MaxKeptSize),
                                  FenceTypeStrings)
                       \cup SpecificationsCalls :
          Requested(request)

NextKept ==
    RequestKept \/ Calculate \/ Specifications \/ Optimize \/ Return \/ ReturnKept

SpecKept == Init /\ [][NextKept]_vars

----------------------------------------------------------------------------
(* Empty input, unknown fence types, malformed points                       *)

\* no entry of the drawing has two points
NoSegmentDrawn(segments_data) ==
    \A k \in DOMAIN segments_data : Len(Get(segments_data[k], "path", <<>>)) < 2

\* a served request of either calculating endpoint
Calculating == Served /\ call.op = "calculate_fence_materials"

Optimizing == Served /\ call.op = "optimize_fence_layout"

\* C1: a calculation of a drawing with no path of two points, for a known
\* fence type, succeeds with total_length 0, segment_count 0 and
\* cost_breakdown.total_cost 0
C1_EmptyDrawingCostsNothing ==
    (Calculating /\ IsFenceType(call.fence_type) /\ NoSegmentDrawn(call.segments_data))
    => /\ result.success
       /\ result.total_length = 0
       /\ result.segment_count = 0
       /\ result.cost_breakdown.total_cost = 0

\* C2: a calculation for a string that is no FenceType returns an error
\* result, whatever the drawing, the empty one included: success false, an
\* error, and none of the report's fields
C2_UnknownFenceTypeFails ==
    (Calculating /\ ~IsFenceType(call.fence_type))
    => /\ result.success = FALSE
       /\ DOMAIN result = {"success", "error"}
       /\ result.error = [type |-> "ValueError", arg |-> call.fence_type]
          \/ ~NoSegmentDrawn(call.segments_data)

\* the empty drawing was calculated for an unknown fence type, and failed
C2_EmptyDrawingUnknownType ==
    /\ Calculating
    /\ ~IsFenceType(call.fence_type)
    /\ call.segments_data = <<>>
    /\ result.success = FALSE
    /\ frame.entered /\ ~frame.completed

\* C3: optimize_fence_layout for a string that is no FenceType returns an
\* error result, never success around a failed calculation with no
\* suggestions
C3_OptimizeUnknownFenceTypeFails ==
    (Optimizing /\ ~IsFenceType(call.fence_type))
    => /\ result.success = FALSE
       /\ "current_result" \notin DOMAIN result

\* a point with a missing or non-numeric coordinate
Malformed(point) ==
    \/ "x" \notin DOMAIN point
    \/ "y" \notin DOMAIN point
    \/ ~IsNumber(point.x)
    \/ ~IsNumber(point.y)

MalformedPath(segment) ==
    \E j \in DOMAIN Get(segment, "path", <<>>) : Malformed(segment.path[j])

\* the drawing with the malformed entries emptied, the others at their index
WellFormedPaths(segments_data) ==
    [k \in DOMAIN segments_data |->
        IF MalformedPath(segments_data[k]) THEN [path |-> <<>>]
        ELSE segments_data[k]]

\* C4: a malformed point costs the calculation only the path it is on: the
\* call succeeds, and segments, segment_count and total_length are those of
\* the well-formed paths
C4_MalformedPathOnlySkipped ==
    (/\ Calculating
     /\ IsFenceType(call.fence_type)
     /\ \E k \in DOMAIN call.segments_data : MalformedPath(call.segments_data[k]))
    => LET others == calculate_fence_project(
                        fence_calculator, WellFormedPaths(call.segments_data),
                        call.fence_type).ret
       IN  /\ result.success
           /\ result.segments = others.segments
           /\ result.segment_count = others.segment_count
           /\ result.total_length = others.total_length

----------------------------------------------------------------------------
(* Connectivity and lengths: calculations on the engine with its built-in  *)
(* price table, for two fence types, of the drawings of at most             *)
(* MaxGeometrySize points in paths of two or three points, drawn at 2 px to *)
(* the foot at 0, 0.5, 1 and 24 ft, so that endpoints meet exactly, within  *)
(* the tolerance (0.5 ft) or not at all                                     *)

MaxGeometrySize == 6

GeometrySegmentsData(size) ==
    Drawings([points |-> {Pt(0), Pt(1), Pt(2), Pt(48)},
              scales |-> {2}, shortest |-> 2, longest |-> 3], size)

RequestGeometry ==
    /\ Idle
    /\ \E request \in Calls("calculate_fence_materials",
                             GeometrySegmentsData(MaxGeometrySize),
                             {"vinyl-privacy", "aluminum-privacy"}) :
          Requested(request)

NextGeometry == RequestGeometry \/ Calculate \/ Return

\* the engine as constructed where frappe.call raises
InitBuiltIn == Constructed([call |-> "raises"])

SpecGeometry == InitBuiltIn /\ [][NextGeometry]_vars

\* how often segment occurs in the groups
Occurrences(segment, groups) ==
    Cardinality({gm \in UNION {{<<g, m>> : m \in 1..Len(groups[g])} :
                                 g \in 1..Len(groups)} :
                    groups[gm[1]][gm[2]] = segment})

\* C6: the connected groups partition the parsed segments: every segment is
\* in exactly one group, once; no group is empty; the group sizes add up to
\* the number of segments
C6_GroupsPartitionSegments ==
    (Calculating /\ result.success)
    => /\ \A k \in 1..Len(frame.fence_segments) :
             Occurrences(frame.fence_segments[k], frame.connected_groups) = 1
       /\ \A g \in 1..Len(frame.connected_groups) : frame.connected_groups[g] # <<>>
       /\ SumSeq([g \in 1..Len(frame.connected_groups) |->
                    Len(frame.connected_groups[g])])
          = Len(frame.fence_segments)
       /\ result.connected_groups = Len(frame.connected_groups)
       /\ result.segment_count = Len(frame.fence_segments)

\* three segments were grouped into the first with the third, and the second
C6_TwoGroups ==
    /\ Calculating
    /\ result.success
    /\ Len(frame.fence_segments) = 3
    /\ Len(frame.connected_groups) = 2
    /\ Len(frame.connected_groups[1]) = 2
    /\ ~segments_connected(frame.fence_segments[1], frame.fence_segments[2])

\* C7: total_length is the sum of the lengths of the parsed segments, the
\* gates among them, and the sum of the groups' materials.total_length
C7_TotalLengthIsSum ==
    (Calculating /\ result.success)
    => /\ 25 * result.total_length
          = SumSeq([k \in 1..Len(result.segments) |-> result.segments[k].length])
       /\ result.total_length
          = SumSeq([g \in 1..Len(frame.group_materials) |->
                      frame.group_materials[g].total_length])
       /\ result.total_length = Get(result.materials, "total_length", 0)

\* two groups, a gate and a fence run among the segments, were summed
C7_GatesAndGroupsSummed ==
    /\ Calculating
    /\ result.success
    /\ result.connected_groups = 2
    /\ result.materials.gates >= 1
    /\ result.materials.panels >= 1
    /\ result.total_length > 0

----------------------------------------------------------------------------
(* Waste factors: calculations, for two fence types, of the drawings of at  *)
(* most MaxRunSize points in paths of two or three points at 0, 24 and      *)
(* 200 ft, long runs among them                                             *)

MaxRunSize == 4

RunSegmentsData(size) ==
    Drawings([points |-> {Pt(0), Pt(24), Pt(200)},
              scales |-> {0}, shortest |-> 2, longest |-> 3], size)

RequestRun ==
    /\ Idle
    /\ \E request \in Calls("calculate_fence_materials", RunSegmentsData(MaxRunSize),
                             {"vinyl-privacy", "aluminum-privacy"}) :
          Requested(request)

NextRun == RequestRun \/ Calculate \/ Return

SpecRun == Init /\ [][NextRun]_vars

\* quantity = ceil(raw * (1 + percent / 100)), in exact arithmetic
IsCeilingWithWaste(quantity, raw, percent) ==
    /\ 100 * (quantity - 1) < raw * (100 + percent)
    /\ raw * (100 + percent) <= 100 * quantity

\* C8: for panels, posts and hardware the reported quantity of a group is
\* ceil(raw * (1 + waste factor)) with the category's own factor: at least
\* the raw quantity, and the raw quantity when the factor is 0
C8_WasteIsCeiling ==
    (Calculating /\ result.success)
    => \A g \in 1..Len(frame.group_materials) :
          LET raw == frame.group_locals[g]
              reported == frame.group_materials[g]
              specs == material_specs[call.fence_type]
          IN  /\ IsCeilingWithWaste(reported.panels, raw.panels_needed,
                                    specs.panel_waste_factor)
              /\ IsCeilingWithWaste(reported.posts, raw.posts_needed,
                                    specs.post_waste_factor)
              /\ IsCeilingWithWaste(reported.hardware, raw.hardware_needed,
                                    specs.hardware_waste_factor)
              /\ reported.panels >= raw.panels_needed
              /\ reported.posts >= raw.posts_needed
              /\ reported.hardware >= raw.hardware_needed
              /\ specs.panel_waste_factor = 0 => reported.panels = raw.panels_needed
              /\ specs.post_waste_factor = 0 => reported.posts = raw.posts_needed
              /\ specs.hardware_waste_factor = 0
                 => reported.hardware = raw.hardware_needed

----------------------------------------------------------------------------
(* Scenario A: 24 ft of vinyl-privacy fence drawn as three collinear        *)
(* segments end to end, the two inner points at whole feet, in one path or  *)
(* in three                                                                 *)

ScenarioASegmentsData ==
    UNION { { <<[path |-> <<Pt(0), Pt(ab[1]), Pt(ab[2]), Pt(24)>>]>>,
              <<[path |-> <<Pt(0), Pt(ab[1])>>],
                [path |-> <<Pt(ab[1]), Pt(ab[2])>>],
                [path |-> <<Pt(ab[2]), Pt(24)>>]>> } :
            ab \in {ab \in (1..23) \X (1..23) : ab[1] < ab[2]} }

RequestScenarioA ==
    /\ Idle
    /\ \E request \in Calls("calculate_fence_materials", ScenarioASegmentsData,
                             {"vinyl-privacy"}) :
          Requested(request)

NextScenarioA == RequestScenarioA \/ Calculate \/ Return

SpecScenarioA == Init /\ [][NextScenarioA]_vars

\* C9: three collinear end-to-end segments forming 24 ft of vinyl-privacy
\* fence need 3 panels, 4 posts and no gate, before the waste factors or as
\* reported
C9_ScenarioAQuantities ==
    Calculating
    => /\ result.success
       /\ result.connected_groups = 1
       /\ frame.group_locals[1].panels_needed = 3 \/ result.materials.panels = 3
       /\ frame.group_locals[1].posts_needed = 4 \/ result.materials.posts = 4
       /\ frame.group_locals[1].gates_needed = 0
       /\ result.materials.gates = 0

----------------------------------------------------------------------------
(* Scenario B: a closed square of four 20 ft sides, drawn as one closed     *)
(* path from any corner in either direction, or as its four sides in any    *)
(* order, each from either end                                              *)

Pt2(x, y) == [x |-> Num(x), y |-> Num(y)]

\* the corners, counter-clockwise from the origin
Corner(k) ==
    CASE k % 4 = 0 -> Pt2(0, 0)
      [] k % 4 = 1 -> Pt2(20, 0)
      [] k % 4 = 2 -> Pt2(20, 20)
      [] OTHER     -> Pt2(0, 20)

\* side k runs from corner k to the next, or back when flipped
Side(k, flipped) ==
    [path |-> IF flipped THEN <<Corner(k + 1), Corner(k)>>
              ELSE <<Corner(k), Corner(k + 1)>>]

Permutations4 ==
    {p \in [1..4 -> 0..3] : \A i, j \in 1..4 : p[i] = p[j] => i = j}

ScenarioBSegmentsData ==
    { <<[path |-> [j \in 1..5 |-> Corner(k + j - 1)]]>> : k \in 0..3 }
    \cup { <<[path |-> [j \in 1..5 |-> Corner(k + 4 - (j - 1))]]>> : k \in 0..3 }
    \cup { [i \in 1..4 |-> Side(p[i], flipped[i])] :
             p \in Permutations4, flipped \in [1..4 -> BOOLEAN] }

RequestScenarioB ==
    /\ Idle
    /\ \E request \in Calls("calculate_fence_materials", ScenarioBSegmentsData,
                             FenceType) :
          Requested(request)

NextScenarioB == RequestScenarioB \/ Calculate \/ Return

SpecScenarioB == Init /\ [][NextScenarioB]_vars

\* C10: a closed square of four 20 ft sides is one connected group and needs
\* at least 4 posts, before the waste factor and as reported
C10_ScenarioBOneGroup ==
    Calculating
    => /\ result.success
       /\ result.segment_count = 4
       /\ result.connected_groups = 1
       /\ frame.group_locals[1].posts_needed >= 4
       /\ result.materials.posts >= 4

\* the four sides, sent out of order with the first two opposite each
\* other, were calculated: one group of 10 posts, 11 with the waste factor
C10_OppositeSidesFirst ==
    /\ Calculating
    /\ Len(call.segments_data) = 4
    /\ ~segments_connected(frame.fence_segments[1], frame.fence_segments[2])
    /\ result.connected_groups = 1
    /\ frame.group_locals[1].posts_needed = 10
    /\ result.materials.posts = 11

----------------------------------------------------------------------------
(* The parser: calculations, for two fence types, of the drawings of at     *)
(* most MaxParseSize points in paths of any length, empty ones too, over    *)
(* the pixel positions 0, 10 and 22, each path with no scale (1 px to the   *)
(* foot) or with scale 2: segments of 10, 12 and 22 ft and of 5, 6 and      *)
(* 11 ft                                                                    *)

MaxParseSize == 4

ParseSegmentsData(size) ==
    Drawings([points |-> {Pt(0), Pt(10), Pt(22)},
              scales |-> {0, 2}, shortest |-> 0, longest |-> size], size)

RequestParse ==
    /\ Idle
    /\ \E request \in Calls("calculate_fence_materials", ParseSegmentsData(MaxParseSize),
                             {"vinyl-privacy", "chain-link"}) :
          Requested(request)

NextParse == RequestParse \/ Calculate \/ Return

SpecParse == InitBuiltIn /\ [][NextParse]_vars

\* the entry of the drawing a parsed segment was drawn in, its two points
\* and the pixels between them (the drawings lie on the x axis)
EntryOf(seg) == call.segments_data[seg.id[1] + 1]

DrawnFrom(seg) == EntryOf(seg).path[seg.id[2] + 1]

DrawnTo(seg) == EntryOf(seg).path[seg.id[2] + 2]

Pixels(seg) ==
    IF DrawnTo(seg).x.num >= DrawnFrom(seg).x.num
    THEN DrawnTo(seg).x.num - DrawnFrom(seg).x.num
    ELSE DrawnFrom(seg).x.num - DrawnTo(seg).x.num

PixelsPerFoot(seg) == Get(EntryOf(seg), "scale", 1)

\* C11: a parsed segment is a gate exactly when its length after scaling is
\* less than 10 ft, 10 ft itself being no gate; gate_width is that length
\* for a gate and absent otherwise, in the segment and in the report
C11_GateIffShorterThanTen ==
    (Calculating /\ result.success)
    => \A k \in 1..Len(frame.fence_segments) :
          LET seg == frame.fence_segments[k]
              reported == result.segments[k]
          IN  /\ seg.is_gate <=> Pixels(seg) < 10 * PixelsPerFoot(seg)
              /\ seg.is_gate
                 => /\ Len(seg.gate_width) = 1
                    /\ PixelsPerFoot(seg) * seg.gate_width[1] = 4 * Pixels(seg)
              /\ ~seg.is_gate => seg.gate_width = <<>>
              /\ reported.is_gate = seg.is_gate
              /\ reported.gate_width = seg.gate_width

\* a segment of exactly 10 ft was parsed as no gate and one of 6 ft, drawn
\* at 2 px to the foot, as a gate
C11_TenFeetAndSixFeet ==
    /\ Calculating
    /\ result.success
    /\ \E k \in 1..Len(frame.fence_segments) :
          /\ Pixels(frame.fence_segments[k]) = 10 * PixelsPerFoot(frame.fence_segments[k])
          /\ ~frame.fence_segments[k].is_gate
    /\ \E k \in 1..Len(frame.fence_segments) :
          /\ Pixels(frame.fence_segments[k]) = 12
          /\ PixelsPerFoot(frame.fence_segments[k]) = 2
          /\ result.segments[k].is_gate
          /\ result.segments[k].gate_width = <<24>>

----------------------------------------------------------------------------
(* Pricing: calculate_pricing applied to materials dicts of lengths 0,      *)
(* 0.25, 7, 99.75 and 100 ft with and without gates, concrete and hardware, *)
(* for a fence type of every table, one the one-row table lacks and one no  *)
(* table has                                                                *)

MaterialsDicts ==
    {EmptyDict, [total_length |-> 400]}
    \cup [total_length : {0, 1, 28, 399, 400}, gates : {0, 1, 3},
          concrete_bags : {0, 5}, hardware : {0, 14}]

RequestPricing ==
    /\ Idle
    /\ \E materials \in MaterialsDicts,
          fence_type \in {"vinyl-privacy", "chain-link", "titanium-privacy"} :
          Requested([op |-> "calculate_pricing", materials |-> materials,
                     fence_type |-> fence_type])

\* fence_calculator.calculate_pricing(materials, fence_type), its locals
\* before rounding kept in frame
Price ==
    /\ Pending
    /\ call.op = "calculate_pricing"
    /\ result' = calculate_pricing(fence_calculator, call.materials, call.fence_type)
    /\ frame' = [entered |-> TRUE,
                 locals |-> PricingLocals(fence_calculator, call.materials,
                                          call.fence_type)]
    /\ logged' = <<>>
    /\ UNCHANGED <<call, material_specs, pricing_data, memo>>

NextPricing == RequestPricing \/ Price \/ Return

SpecPricing == Init /\ [][NextPricing]_vars

Pricing == Served /\ call.op = "calculate_pricing"

\* cents is num / den rounded to a whole number (den > 0)
IsRounded(cents, num, den) ==
    /\ 2 * (den * cents - num) <= den
    /\ 2 * (num - den * cents) <= den

\* the subtotal of the formula in quarters of a dollar: rates in dollars,
\* total_length in quarter feet
FormulaSubtotal(pricing, materials) ==
    4 * Get(pricing, "base", 0)
    + Get(materials, "total_length", 0) * Get(pricing, "per_foot", 0)
    + Get(materials, "total_length", 0) * Get(pricing, "labor_per_foot", 0)
    + 4 * (150 * Get(materials, "gates", 0) + 8 * Get(materials, "concrete_bags", 0)
           + 2 * Get(materials, "hardware", 0))

\* C12: calculate_pricing returns, each rounded to cents, material_cost =
\* base + total_length * per_foot, labor_cost = total_length * labor_per_foot,
\* gate_cost = 150 * gates, concrete_cost = 8 * concrete_bags, hardware_cost =
\* 2 * hardware, their sum as subtotal, markup = 0.20 * subtotal, tax = 0.08 *
\* (subtotal + markup), total_cost = subtotal + markup + tax of the unrounded
\* values, and cost_per_foot = total_cost / total_length, 0 for no length;
\* 100 ft at the vinyl-privacy defaults cost 1825 in material and 800 in labor
C12_PricingFormula ==
    Pricing
    => LET pricing == Get(pricing_data, call.fence_type, EmptyDict)
           materials == call.materials
           feet4 == Get(materials, "total_length", 0)
           subtotal == FormulaSubtotal(pricing, materials)
       IN  /\ result.material_cost
                = 100 * Get(pricing, "base", 0) + 25 * feet4 * Get(pricing, "per_foot", 0)
           /\ result.labor_cost = 25 * feet4 * Get(pricing, "labor_per_foot", 0)
           /\ result.gate_cost = 100 * 150 * Get(materials, "gates", 0)
           /\ result.concrete_cost = 100 * 8 * Get(materials, "concrete_bags", 0)
           /\ result.hardware_cost = 100 * 2 * Get(materials, "hardware", 0)
           /\ result.subtotal = 25 * subtotal
           /\ result.markup = 5 * subtotal
           /\ IsRounded(result.tax, 8 * 30 * subtotal, 100)
           /\ IsRounded(result.total_cost, (2500 + 500 + 240) * subtotal, 100)
           /\ IF feet4 > 0
              THEN IsRounded(result.cost_per_foot, 4 * 3240 * subtotal, 100 * feet4)
              ELSE result.cost_per_foot = 0
           /\ (feet4 = 400 /\ pricing = DefaultPricing["vinyl-privacy"])
              => result.material_cost = 182500 /\ result.labor_cost = 80000

\* Scenario E: 100 ft at the vinyl-privacy defaults and nothing else was
\* priced: subtotal 2625, markup 525, tax 252, total 3402, 34.02 a foot
C12_ScenarioE ==
    /\ Pricing
    /\ call.materials = [total_length |-> 400]
    /\ call.fence_type = "vinyl-privacy"
    /\ pricing_data = DefaultPricing
    /\ result.material_cost = 182500
    /\ result.labor_cost = 80000
    /\ result.subtotal = 262500
    /\ result.markup = 52500
    /\ result.tax = 25200
    /\ result.total_cost = 340200
    /\ result.cost_per_foot = 3402

----------------------------------------------------------------------------
(* Import of the module: fence_calculator = FenceCalculationEngine() runs   *)
(* against each price source, and the engine it leaves prices materials     *)

InitImport ==
    \E source \in PriceSources :
        /\ call = [op |-> "FenceCalculationEngine", source |-> source]
        /\ material_specs = EmptyDict
        /\ pricing_data = EmptyDict
        /\ result = NoResult
        /\ frame = NoFrame
        /\ logged = <<>>
        /\ memo = NoMemo

\* FenceCalculationEngine.__init__
Construct ==
    /\ Pending
    /\ call.op = "FenceCalculationEngine"
    /\ material_specs' = load_material_specs
    /\ pricing_data' = load_pricing_data(call.source)
    /\ result' = Returned("fence_calculator")
    /\ frame' = [entered |-> TRUE]
    /\ logged' = <<>>
    /\ UNCHANGED <<call, memo>>

NextImport == Construct \/ RequestPricing \/ Price \/ Return

SpecImport == InitImport /\ [][NextImport]_vars

Constructing == Served /\ call.op = "FenceCalculationEngine"

\* frappe.call raised, or what it returned is empty
Unavailable(source) ==
    \/ source.call = "raises"
    \/ DOMAIN get_pricing_from_database(source) = {}

\* C13: when the price lookup raises or returns nothing, the construction of
\* the engine returns and pricing_data is the built-in table: base, per_foot
\* and labor_per_foot for each of the eight fence types, 25 / 18 / 8 for
\* vinyl-privacy
C13_UnavailableSourceGivesDefaults ==
    (Constructing /\ Unavailable(call.source))
    => /\ result.ok
       /\ pricing_data = DefaultPricing
       /\ DOMAIN pricing_data = FenceType
       /\ Cardinality(DOMAIN pricing_data) = 8
       /\ \A t \in DOMAIN pricing_data :
            /\ DOMAIN pricing_data[t] = {"base", "per_foot", "labor_per_foot"}
            /\ \A field \in DOMAIN pricing_data[t] : pricing_data[t][field] > 0
       /\ pricing_data["vinyl-privacy"]
            = [base |-> 25, per_foot |-> 18, labor_per_foot |-> 8]

\* the engine was constructed when the lookup returned an empty table
C13_LookupReturnedNothing ==
    /\ Constructing
    /\ call.source.call = "returns"
    /\ get_pricing_from_database(call.source) = EmptyDict
    /\ result.ok
    /\ pricing_data["vinyl-privacy"].labor_per_foot = 8

----------------------------------------------------------------------------
(* The drawings of SpecParse calculated on the engine of every price source *)

SpecParsePriced == Init /\ [][NextParse]_vars

\* the keys of the report of calculate_fence_project and of the dict of
\* calculate_pricing
ReportKeys ==
    {"success", "total_length", "segment_count", "connected_groups",
     "materials", "cost_breakdown", "segments"}

CostKeys ==
    {"material_cost", "labor_cost", "gate_cost", "concrete_cost", "hardware_cost",
     "subtotal", "markup", "tax", "total_cost", "cost_per_foot"}

\* the report carries something besides the figures of a priced report
Flagged(report) ==
    \/ DOMAIN report # ReportKeys
    \/ DOMAIN report.cost_breakdown # CostKeys

\* pricing_data has no entry for fence_type, or an entry without per_foot and
\* labor_per_foot
PriceMissing(fence_type) ==
    \/ fence_type \notin DOMAIN pricing_data
    \/ DOMAIN pricing_data[fence_type] \cap {"per_foot", "labor_per_foot"} = {}

\* C14: a successful report for a layout of positive length and a known fence
\* type whose price is missing from the loaded table does not have
\* material_cost and labor_cost both zero unless the report is flagged
C14_MissingPriceIsFlagged ==
    (/\ Calculating
     /\ IsFenceType(call.fence_type)
     /\ PriceMissing(call.fence_type)
     /\ result.success
     /\ result.total_length > 0)
    => \/ Flagged(result)
       \/ ~(/\ result.cost_breakdown.material_cost = 0
            /\ result.cost_breakdown.labor_cost = 0)

----------------------------------------------------------------------------
(* Advice: optimize_fence_layout on drawings at 4 pixels a foot over the    *)
(* points 0, 50 and 50.25 ft: runs of exactly 50 ft and of 50.25 ft, up to  *)
(* four gates of 0.25 ft, one group or two                                  *)

MaxAdviceSize == 5

AdviceSegmentsData(size) ==
    Drawings([points |-> {Pt(0), Pt(200), Pt(201)},
              scales |-> {4}, shortest |-> 2, longest |-> size], size)

RequestAdvice ==
    /\ Idle
    /\ \E request \in Calls("optimize_fence_layout", AdviceSegmentsData(MaxAdviceSize),
                             {"vinyl-privacy"}) :
          Requested(request)

NextAdvice == RequestAdvice \/ Optimize \/ Return

SpecAdvice == InitBuiltIn /\ [][NextAdvice]_vars

\* the types of the suggestions returned
SuggestionTypes == {result.suggestions[i].type : i \in DOMAIN result.suggestions}

\* every suggestion of the given type has the given savings (in cents), or
\* the savings that round to them
SavingsAre(type, cents) ==
    \A i \in DOMAIN result.suggestions :
        result.suggestions[i].type = type
        => result.suggestions[i].potential_savings = cents

SavingsRound(type, num, den) ==
    \A i \in DOMAIN result.suggestions :
        result.suggestions[i].type = type
        => IsRounded(result.suggestions[i].potential_savings, num, den)

\* the suggestions are those whose threshold holds, one of each, and the
\* gate and connectivity savings are as stated; the report is that of
\* calculate_fence_project for the same input
ThresholdsDecide ==
    LET report == result.current_result
        gates == Get(report.materials, "gates", 0)
    IN  /\ Len(result.suggestions) = Cardinality(SuggestionTypes)
        /\ SuggestionTypes \subseteq {"panel_optimization", "gate_optimization",
                                      "connectivity"}
        /\ "panel_optimization" \in SuggestionTypes <=> report.total_length > 4 * 50
        /\ "gate_optimization" \in SuggestionTypes <=> gates > 2
        /\ "connectivity" \in SuggestionTypes <=> report.connected_groups > 1
        /\ SavingsAre("gate_optimization", 100 * (gates - 2) * 150)
        /\ SavingsAre("connectivity", 100 * report.connected_groups * 100)
        /\ report = calculate_fence_project(fence_calculator, call.segments_data,
                                            call.fence_type).ret

\* C15 as stated: for a successful calculation optimize_fence_layout returns
\* exactly the suggestions whose threshold holds (total_length > 50, gates >
\* 2, connected_groups > 1, none at the boundary) with savings total_length *
\* 0.5, (gates - 2) * 150 and connected_groups * 100, beside the report of
\* the calculation
C15_SavingsExact ==
    (Optimizing /\ result.success /\ result.current_result.success)
    => /\ ThresholdsDecide
       /\ \A i \in DOMAIN result.suggestions :
            result.suggestions[i].type = "panel_optimization"
            => 8 * result.suggestions[i].potential_savings
                 = 100 * result.current_result.total_length

\* C15: the same, the panel savings being total_length * 0.5 rounded to two
\* decimals
C15_SavingsRounded ==
    (Optimizing /\ result.success /\ result.current_result.success)
    => /\ ThresholdsDecide
       /\ SavingsRound("panel_optimization", 100 * result.current_result.total_length, 8)

\* 50.75 ft in one group with three gates: panel savings 25.375 returned as
\* 25.38, gate savings 150, no connectivity suggestion
C15_PanelAndGateSuggestions ==
    /\ Optimizing
    /\ result.current_result.success
    /\ result.current_result.total_length = 203
    /\ result.current_result.materials.gates = 3
    /\ result.current_result.connected_groups = 1
    /\ result.suggestions
         = <<[type |-> "panel_optimization", potential_savings |-> 2538],
             [type |-> "gate_optimization", potential_savings |-> 15000]>>

----------------------------------------------------------------------------
(* The parser's output against the drawing, entry by entry *)

\* the segments a path of the drawing gives: one less than its points
SegmentsOf(entry) == Max(0, Len(Get(entry, "path", <<>>)) - 1)

\* the segments the entries before entry i (from 1) give
SegmentsBefore(i) ==
    SumSeq([k \in 1..(i - 1) |-> SegmentsOf(call.segments_data[k])])

\* a reported point (quarter feet) is the drawn point (pixels) divided by
\* pixels per foot
ScaledBy(reported, drawn, pixels_per_foot) ==
    /\ pixels_per_foot * reported.x = 4 * drawn.x.num
    /\ pixels_per_foot * reported.y = 4 * drawn.y.num

\* C16: a path of fewer than 2 points gives no segment and a path of N >= 2
\* points gives N - 1, joining consecutive points in order; segment_count is
\* their sum; each segment's coordinates are its own path's divided by that
\* path's scale (1 without one); every segment has the call's fence_type
C16_SegmentsFollowPaths ==
    (Calculating /\ result.success)
    => /\ result.segment_count = SegmentsBefore(Len(call.segments_data) + 1)
       /\ Len(result.segments) = result.segment_count
       /\ \A i \in DOMAIN call.segments_data :
            \A j \in 1..SegmentsOf(call.segments_data[i]) :
                LET entry == call.segments_data[i]
                    seg == result.segments[SegmentsBefore(i) + j]
                IN  /\ ScaledBy(seg.start, entry.path[j], Get(entry, "scale", 1))
                    /\ ScaledBy(seg.end, entry.path[j + 1], Get(entry, "scale", 1))
                    /\ seg.fence_type = call.fence_type

\* 10 pixels at 1 pixel a foot, then the same 10 pixels at 2: a segment of
\* 10 ft and one of 5 ft
C16_EachPathItsOwnScale ==
    /\ Calculating
    /\ result.success
    /\ Len(call.segments_data) = 2
    /\ "scale" \notin DOMAIN call.segments_data[1]
    /\ Get(call.segments_data[2], "scale", 1) = 2
    /\ result.segment_count = 2
    /\ result.segments[1].start.x = 0 /\ result.segments[1].end.x = 40
    /\ result.segments[2].start.x = 0 /\ result.segments[2].end.x = 20

----------------------------------------------------------------------------
(* The groups against chains of neighbouring segments *)

\* segments a and b (indices into fence_segments) have endpoints within half
\* a foot of each other: 2 quarter feet, compared on the squares
Near(a, b) ==
    \E p \in {frame.fence_segments[a].start, frame.fence_segments[a].end} :
        \E q \in {frame.fence_segments[b].start, frame.fence_segments[b].end} :
            (p.x - q.x) * (p.x - q.x) + (p.y - q.y) * (p.y - q.y) <= 2 * 2

\* the segments a chain of neighbours reaches from those of reached
RECURSIVE Chained(_)
Chained(reached) ==
    LET further == reached \cup {b \in DOMAIN frame.fence_segments :
                                    \E a \in reached : Near(a, b)}
    IN  IF further = reached THEN reached ELSE Chained(further)

\* the group (its index) that has segment k
GroupOf(k) ==
    CHOOSE g \in DOMAIN frame.connected_groups :
        \E m \in DOMAIN frame.connected_groups[g] :
            frame.connected_groups[g][m] = frame.fence_segments[k]

\* C17: two segments are in the same group exactly when a chain of segments
\* leads from one to the other, each with an endpoint within 0.5 ft of an
\* endpoint of the next; so groups are maximal and a segment without
\* neighbour is a group by itself
C17_GroupsAreChains ==
    (Calculating /\ result.success)
    => /\ \A a, b \in DOMAIN frame.fence_segments :
            GroupOf(a) = GroupOf(b) <=> b \in Chained({a})
       /\ \A a \in DOMAIN frame.fence_segments :
            (\A b \in DOMAIN frame.fence_segments \ {a} : ~Near(a, b))
            => frame.connected_groups[GroupOf(a)] = <<frame.fence_segments[a]>>

\* three segments in one group, the first and the third joined only through
\* the second, which starts exactly 0.5 ft from the end of the first
C17_ChainThroughSecond ==
    /\ Calculating
    /\ result.success
    /\ Len(frame.fence_segments) = 3
    /\ Len(frame.connected_groups) = 1
    /\ Near(1, 2) /\ Near(2, 3) /\ ~Near(1, 3)
    /\ frame.fence_segments[1].end.x = 0
    /\ frame.fence_segments[2].start.x = 2

----------------------------------------------------------------------------
(* The order of the segments within a group *)

\* the position in fence_segments of the m-th segment of group g
InputIndex(g, m) ==
    CHOOSE k \in DOMAIN frame.fence_segments :
        frame.fence_segments[k] = frame.connected_groups[g][m]

\* C18: along the list of every group the segments are in input order: their
\* indices in the parsed list increase strictly
C18_GroupsKeepInputOrder ==
    (Calculating /\ result.success)
    => \A g \in DOMAIN frame.connected_groups :
          \A m1, m2 \in DOMAIN frame.connected_groups[g] :
              m1 < m2 => InputIndex(g, m1) < InputIndex(g, m2)

----------------------------------------------------------------------------
(* Junctions: calculations of up to MaxArms strokes between a hub at        *)
(* (24, 24) ft and a tip: three tips 24 ft away, one 6 ft away (a gate) and *)
(* the hub itself (a stroke of no length), each stroke drawn from either    *)
(* end, so that strokes meet at the hub, repeat each other or close on      *)
(* themselves                                                               *)

MaxArms == 3

JunctionSegmentsData(size) ==
    LET hub == Pt2(24, 24)
        tips == {Pt2(48, 24), Pt2(24, 48), Pt2(0, 24), Pt2(24, 18), Pt2(24, 24)}
        arms == {[path |-> <<hub, tip>>] : tip \in tips}
                \cup {[path |-> <<tip, hub>>] : tip \in tips}
    IN  UNION {[1..n -> arms] : n \in 0..size}

RequestJunction ==
    /\ Idle
    /\ \E request \in Calls("calculate_fence_materials", JunctionSegmentsData(MaxArms),
                             {"vinyl-privacy"}) :
          Requested(request)

NextJunction == RequestJunction \/ Calculate \/ Return

SpecJunction == InitBuiltIn /\ [][NextJunction]_vars

\* the connections of the logical points of group g, as the classifier has
\* them: the set of the points each is joined to
ConnectionsOf(g) ==
    PointConnections(frame.connected_groups[g], GroupPoints(frame.connected_groups[g]))

\* how many logical points of group g have one of the degrees
PointsOfDegree(g, degrees) ==
    Cardinality({idx \in DOMAIN ConnectionsOf(g) :
                    Cardinality(ConnectionsOf(g)[idx]) \in degrees})

\* the degrees above 2 a point of group g can have
Above2(g) == 3..(2 * Len(frame.connected_groups[g]))

\* the length in quarter feet of the segments of group g that are no gates,
\* each along its axis
FenceRun(g) ==
    SumSeq([k \in DOMAIN frame.connected_groups[g] |->
              LET seg == frame.connected_groups[g][k]
              IN  IF seg.is_gate THEN 0
                  ELSE Max(seg.start.x - seg.end.x, seg.end.x - seg.start.x)
                       + Max(seg.start.y - seg.end.y, seg.end.y - seg.start.y)])

\* theoretical is the least number of spans of post_spacing feet that cover
\* the run
IsCeilingOfRun(theoretical, run, post_spacing) ==
    /\ run <= 4 * post_spacing * theoretical
    /\ theoretical > 0 => run > 4 * post_spacing * (theoretical - 1)

\* C19: for every group, posts_needed = corner_posts + end_posts + line_posts,
\* with end_posts the number of logical points of degree 1, corner_posts the
\* number of degree > 2 (degree 2 in neither) and line_posts = max(0,
\* ceil(non-gate length / post_spacing) - corner_posts - end_posts)
C19_PostsByDegree ==
    (Calculating /\ result.success)
    => \A g \in DOMAIN frame.connected_groups :
          LET end_posts == PointsOfDegree(g, {1})
              corner_posts == PointsOfDegree(g, Above2(g))
              post_spacing == material_specs[call.fence_type].post_spacing
          IN  \E theoretical \in 0..(FenceRun(g) + 1) :
                 /\ IsCeilingOfRun(theoretical, FenceRun(g), post_spacing)
                 /\ frame.group_locals[g].posts_needed
                      = corner_posts + end_posts
                        + Max(0, theoretical - corner_posts - end_posts)

\* three strokes of 24 ft meet at the hub: one point of degree 3, three of
\* degree 1, 72 ft of fence in 9 spans, so 4 posts and 5 line posts
C19_ThreeWayJunction ==
    /\ Calculating
    /\ result.success
    /\ Len(frame.connected_groups) = 1
    /\ FenceRun(1) = 4 * 72
    /\ PointsOfDegree(1, {1}) = 3
    /\ PointsOfDegree(1, {3}) = 1
    /\ frame.group_locals[1].posts_needed = 9

----------------------------------------------------------------------------
(* The degree of a logical point against the segment ends merged into it *)

\* the ends (segment, side) of the segments of group g that
\* _find_point_index places at logical point idx
EndsAt(g, idx) ==
    LET group == frame.connected_groups[g]
    IN  {end \in (DOMAIN group) \X {"start", "end"} :
            find_point_index(group[end[1]][end[2]], GroupPoints(group)) = idx}

\* C20: the degree the classifier gives a logical point is the number of
\* segment ends merged into it, one for each end: 2 for each of two points
\* joined by two segments, 2 for a point where a segment starts and ends
C20_DegreeCountsSegmentEnds ==
    (Calculating /\ result.success)
    => \A g \in DOMAIN frame.connected_groups :
          \A idx \in DOMAIN ConnectionsOf(g) :
              Cardinality(ConnectionsOf(g)[idx]) = Cardinality(EndsAt(g, idx))

----------------------------------------------------------------------------
(* The deduplicated points of a group against the tolerance *)

\* the endpoints of the segments of group g
EndpointsOf(g) ==
    UNION {{frame.connected_groups[g][k].start, frame.connected_groups[g][k].end} :
              k \in DOMAIN frame.connected_groups[g]}

\* C21: in every group, two segment endpoints at most 0.5 ft apart (2 quarter
\* feet, compared on the squares) are merged into the same logical point
C21_NearEndpointsMerge ==
    (Calculating /\ result.success)
    => \A g \in DOMAIN frame.connected_groups :
          \A p, q \in EndpointsOf(g) :
              (p.x - q.x) * (p.x - q.x) + (p.y - q.y) * (p.y - q.y) <= 2 * 2
              => find_point_index(p, GroupPoints(frame.connected_groups[g]))
                   = find_point_index(q, GroupPoints(frame.connected_groups[g]))

----------------------------------------------------------------------------
(* The quantities of a group before the waste factors *)

\* the segments of group g that are gates (their positions in the group)
GatesOf(g) ==
    {k \in DOMAIN frame.connected_groups[g] : frame.connected_groups[g][k].is_gate}

\* the sum of gate_width over the gates of group g
GateWidthOf(g) ==
    SumSeq([k \in DOMAIN frame.connected_groups[g] |->
              IF k \in GatesOf(g) THEN frame.connected_groups[g][k].gate_width[1] ELSE 0])

----------------------------------------------------------------------------
(* Concrete *)

\* C23: for every group, concrete_bags is ceil(posts_needed *
\* concrete_bags_per_post) of the posts before their waste factor
\* (concrete_bags_per_post in half bags)
C23_ConcreteForRawPosts ==
    (Calculating /\ result.success)
    => \A g \in DOMAIN frame.connected_groups :
          LET half_bags == frame.group_locals[g].posts_needed
                           * material_specs[call.fence_type].concrete_bags_per_post
              bags == frame.group_materials[g].concrete_bags
          IN  /\ 2 * bags >= half_bags
              /\ 2 * (bags - 1) < half_bags

\* 3 posts of vinyl-privacy fence, 4 with the waste factor, take 5 bags at
\* 1.5 a post, where 4 posts would take 6
C23_ThreePostsFiveBags ==
    /\ Calculating
    /\ result.success
    /\ call.fence_type = "vinyl-privacy"
    /\ Len(frame.connected_groups) = 1
    /\ frame.group_locals[1].posts_needed = 3
    /\ frame.group_materials[1].posts = 4
    /\ frame.group_materials[1].concrete_bags = 5

----------------------------------------------------------------------------
(* The report's materials against the groups' *)

\* the sum over the groups of what calculate_materials_for_group returned
\* for the material
SumOverGroups(material) ==
    SumSeq([g \in DOMAIN frame.group_materials |-> frame.group_materials[g][material]])

\* C24: in the report each of panels, posts, hardware, gates, concrete_bags
\* and total_length is the sum over the groups of the value returned for the
\* group (nothing where there is no group); no waste factor or rounding
\* comes after the sum
C24_ReportSumsGroups ==
    (Calculating /\ result.success)
    => /\ \A material \in {"panels", "posts", "hardware", "gates", "concrete_bags",
                           "total_length"} :
            /\ Get(result.materials, material, 0) = SumOverGroups(material)
            /\ frame.group_materials # <<>> => material \in DOMAIN result.materials
       /\ Len(frame.group_materials) = Len(frame.connected_groups)

\* a gate alone (1 post, 2 with waste) and a run of 23 ft (3 posts, 4 with
\* waste): 6 posts in the report, where waste on the 4 posts together gives 5
C24_TwoGroupsSixPosts ==
    /\ Calculating
    /\ result.success
    /\ Len(frame.group_materials) = 2
    /\ frame.group_locals[1].posts_needed = 1
    /\ frame.group_locals[2].posts_needed = 3
    /\ frame.group_materials[1].posts = 2
    /\ frame.group_materials[2].posts = 4
    /\ result.materials.posts = 6

----------------------------------------------------------------------------
(* optimize_cuts on the merged totals of a calculation *)

\* the totals merged from the groups: the argument of optimize_cuts
MergedTotals ==
    IF frame.group_materials = <<>> THEN EmptyDict
    ELSE [material \in DOMAIN frame.group_materials[1] |-> SumOverGroups(material)]

\* C25: optimize_cuts returns every quantity of the merged totals unchanged,
\* adds no key but cut_waste_factor, leaves the totals it was given
\* unmodified, and returns totals without panels as they are
C25_CutsAreConservative ==
    (Calculating /\ result.success)
    => /\ \A material \in DOMAIN MergedTotals :
            /\ material \in DOMAIN result.materials
            /\ result.materials[material] = MergedTotals[material]
       /\ DOMAIN result.materials \ DOMAIN MergedTotals \subseteq {"cut_waste_factor"}
       /\ frame.total_materials = MergedTotals
       /\ "panels" \notin DOMAIN MergedTotals => result.materials = MergedTotals

\* totals with panels went through optimize_cuts: the returned dict has
\* cut_waste_factor, the totals have not
C25_AnnotatedCopy ==
    /\ Calculating
    /\ result.success
    /\ Len(frame.group_materials) = 2
    /\ frame.total_materials.panels = 4
    /\ result.materials.panels = 4
    /\ "cut_waste_factor" \in DOMAIN result.materials
    /\ "cut_waste_factor" \notin DOMAIN frame.total_materials

----------------------------------------------------------------------------
(* The rates of a table the price source returned *)

\* the per-foot material rate an entry of the loaded table gives, under the
\* key of the built-in table or under the key of get_pricing_from_database
MaterialRate(entry) ==
    IF "per_foot" \in DOMAIN entry THEN entry.per_foot ELSE Get(entry, "perFoot", 0)

\* C26: when the loaded table is one the price source returned and has an
\* entry for the requested fence type, material_cost is base + total_length *
\* the entry's per-foot material rate and labor_cost is total_length * the
\* entry's per-foot labor rate (cents; total_length in quarter feet)
C26_SourceRatesAreUsed ==
    (/\ Calculating
     /\ result.success
     /\ pricing_data # DefaultPricing
     /\ call.fence_type \in DOMAIN pricing_data)
    => LET entry == pricing_data[call.fence_type]
       IN  /\ result.cost_breakdown.material_cost
                = 100 * entry.base + 25 * result.total_length * MaterialRate(entry)
           /\ result.cost_breakdown.labor_cost
                = 25 * result.total_length * Get(entry, "labor_per_foot", 0)

----------------------------------------------------------------------------
(* Segments of no length *)

\* a segment that starts where it ends
Degenerate(seg) == seg.start = seg.end

\* the length in quarter feet a segment has along its axis, 0 for a
\* segment of no length
AlongAxis(seg) ==
    IF Degenerate(seg) THEN 0
    ELSE Max(seg.start.x - seg.end.x, seg.end.x - seg.start.x)
         + Max(seg.start.y - seg.end.y, seg.end.y - seg.start.y)

\* C27: a calculation of a drawing with a stroke that ends where it starts
\* succeeds; total_length is the sum over the other segments; in the group
\* of a segment of no length total_length and the fence length used for the
\* panels are the sums over the other segments (less the width of the gates
\* among them); the point of the segment is a logical point of its group,
\* joined to itself in the point connections, and a group of such segments
\* only still gets a post
C27_ZeroLengthSegmentCounts ==
    (/\ Calculating
     /\ \E i \in DOMAIN call.segments_data :
           call.segments_data[i].path[1] = call.segments_data[i].path[2])
    => /\ result.success
       /\ \E k \in DOMAIN frame.fence_segments : Degenerate(frame.fence_segments[k])
       /\ result.total_length
            = SumSeq([k \in DOMAIN frame.fence_segments |->
                        AlongAxis(frame.fence_segments[k])])
       /\ \A g \in DOMAIN frame.connected_groups :
             LET group == frame.connected_groups[g]
                 raw == frame.group_locals[g]
             IN  (\E k \in DOMAIN group : Degenerate(group[k]))
                 => /\ raw.total_length
                         = SumSeq([k \in DOMAIN group |-> AlongAxis(group[k])])
                    /\ raw.fence_length
                         = SumSeq([k \in DOMAIN group |->
                                     IF Degenerate(group[k]) THEN 0
                                     ELSE AlongAxis(group[k])
                                          - (IF group[k].is_gate
                                             THEN group[k].gate_width[1] ELSE 0)])
                    /\ \A k \in DOMAIN group :
                          Degenerate(group[k])
                          => LET idx == find_point_index(group[k].start, GroupPoints(group))
                             IN  /\ idx \in DOMAIN ConnectionsOf(g)
                                 /\ idx \in ConnectionsOf(g)[idx]
                    /\ (\A k \in DOMAIN group : Degenerate(group[k]))
                       => raw.posts_needed >= 1

\* a stroke of no length at the hub, then 24 ft of fence from the hub: one
\* group of 24 ft, 24 ft of fence for the panels, the hub joined to itself
\* and to the far end
C27_ZeroLengthThenFence ==
    /\ Calculating
    /\ result.success
    /\ Len(frame.fence_segments) = 2
    /\ Degenerate(frame.fence_segments[1])
    /\ ~Degenerate(frame.fence_segments[2])
    /\ result.total_length = 4 * 24
    /\ Len(frame.connected_groups) = 1
    /\ frame.group_locals[1].fence_length = 4 * 24
    /\ Cardinality(ConnectionsOf(1)[1]) = 2

----------------------------------------------------------------------------
(* The posts of a group as a maximum *)

\* C28: for every non-empty group, the posts _calculate_posts_for_group
\* returns are the greater of ceil(non-gate length / post_spacing) and
\* corner_posts + end_posts: never fewer than the end and corner points,
\* never fewer than the spans of the run
C28_PostsAreMaximum ==
    (Calculating /\ result.success)
    => \A g \in DOMAIN frame.connected_groups :
          LET classified == PointsOfDegree(g, {1}) + PointsOfDegree(g, Above2(g))
              post_spacing == material_specs[call.fence_type].post_spacing
              posts == frame.group_locals[g].posts_needed
          IN  /\ frame.connected_groups[g] # <<>>
              /\ posts >= classified
              /\ \E theoretical \in 0..(FenceRun(g) + 1) :
                    /\ IsCeilingOfRun(theoretical, FenceRun(g), post_spacing)
                    /\ posts >= theoretical
                    /\ posts = Max(theoretical, classified)

\* a gate of 6 ft alone: the run of no length has no span and the two ends
\* of the gate are the posts
C28_EndsOutnumberSpans ==
    /\ Calculating
    /\ result.success
    /\ Len(frame.connected_groups) = 1
    /\ Len(frame.connected_groups[1]) = 1
    /\ FenceRun(1) = 0
    /\ frame.group_locals[1].total_length = 4 * 6
    /\ PointsOfDegree(1, {1}) = 2
    /\ frame.group_locals[1].posts_needed = 2

----------------------------------------------------------------------------
(* Gates of no width *)

\* the parsed segments shorter than 10 ft along their axis (their positions)
ShortSegments ==
    {k \in DOMAIN frame.fence_segments :
        AlongAxis(frame.fence_segments[k]) < GateThreshold}

\* C29: every parsed segment of no length is a gate with gate_width 0; the
\* gates of the report are the parsed segments shorter than 10 ft, those of
\* no length among them, and gate_cost is 150 (15000 cents) for each
C29_ZeroLengthSegmentIsGate ==
    (Calculating /\ result.success)
    => /\ \A k \in DOMAIN frame.fence_segments :
             Degenerate(frame.fence_segments[k])
             => /\ frame.fence_segments[k].is_gate
                /\ frame.fence_segments[k].gate_width = <<0>>
                /\ k \in ShortSegments
       /\ Get(result.materials, "gates", 0) = Cardinality(ShortSegments)
       /\ result.cost_breakdown.gate_cost = 15000 * Cardinality(ShortSegments)

\* two strokes of no length at the hub and 24 ft of fence from it: 2 gates,
\* 300 of gate cost
C29_TwoGatesOfNoWidth ==
    /\ Calculating
    /\ result.success
    /\ Len(frame.fence_segments) = 3
    /\ Cardinality({k \in DOMAIN frame.fence_segments :
                       Degenerate(frame.fence_segments[k])}) = 2
    /\ Cardinality(ShortSegments) = 2
    /\ result.materials.gates = 2
    /\ result.cost_breakdown.gate_cost = 30000

----------------------------------------------------------------------------
(* The report's costs against the costs of the groups *)

\* the sum over the groups of a field of the cost calculated for the group
CostOverGroups(field) ==
    SumSeq([g \in DOMAIN frame.group_cost |-> frame.group_cost[g][field]])

\* C30: the report's cost_breakdown is the pricing formula on the merged
\* totals of the report: the base is in material_cost once however many
\* groups there are (each group's own cost has it once more), and the
\* total_cost the loop accumulates over the groups, which with two groups or
\* more is above the report's, is not what the report carries
C30_PricedOnceOnTotals ==
    (Calculating /\ result.success)
    => LET pricing == Get(pricing_data, call.fence_type, EmptyDict)
           materials == result.materials
           costs == result.cost_breakdown
           feet4 == Get(materials, "total_length", 0)
           subtotal == FormulaSubtotal(pricing, materials)
           groups == Len(frame.connected_groups)
       IN  /\ costs.material_cost
                = 100 * Get(pricing, "base", 0) + 25 * feet4 * Get(pricing, "per_foot", 0)
           /\ costs.subtotal = 25 * subtotal
           /\ costs.markup = 5 * subtotal
           /\ IsRounded(costs.tax, 8 * 30 * subtotal, 100)
           /\ IsRounded(costs.total_cost, (2500 + 500 + 240) * subtotal, 100)
           /\ Len(frame.group_cost) = groups
           /\ frame.total_cost = CostOverGroups("total_cost")
           /\ groups >= 1
              => costs.material_cost
                   = CostOverGroups("material_cost")
                     - (groups - 1) * 100 * Get(pricing, "base", 0)
           /\ groups >= 2 => frame.total_cost > costs.total_cost

\* two groups of vinyl-privacy fence with some length: the two costs of
\* the groups hold the base of 25 twice, the report once
C30_TwoGroupsOneBase ==
    /\ Calculating
    /\ result.success
    /\ call.fence_type = "vinyl-privacy"
    /\ Len(frame.connected_groups) = 2
    /\ result.total_length > 0
    /\ CostOverGroups("material_cost") = result.cost_breakdown.material_cost + 2500
    /\ frame.total_cost > result.cost_breakdown.total_cost

====
